---------------------------- MODULE Spec2Model ----------------------------
(***************************************************************************)
(* Model of the mental-health assistant backend:                           *)
(*   - CrisisDetector (services/crisis_detection.py): keyword scan,        *)
(*     crisis level table, response templates;                             *)
(*   - MentalHealthMonitor (services/monitoring.py): sessions,             *)
(*     interactions, crisis events, daily check-ins and streaks.           *)
(*   - the request handlers of api/main.py: /analyze_text and              *)
(*     /analyze_multimodal.                                                *)
(*                                                                         *)
(* Conventions.  Text is a sequence of word tokens, a keyword is a         *)
(* sequence of (lower-case) tokens and Python's `kw in text` is contiguous *)
(* sub-sequence containment.  Mood scores are integers in hundredths       *)
(* (-0.8 is -80).  An Optional value is <<>> (None) or <<v>>.  uuid4()     *)
(* identifiers are drawn from counters, so every generated id is fresh.    *)
(***************************************************************************)
EXTENDS Integers, Sequences, FiniteSets, TLC

VARIABLES
    text,            \* check_crisis argument: the user's input text
    mood_score,      \* check_crisis argument: sentiment score, hundredths
    user_location,   \* check_crisis argument
    crisis_result,   \* value returned by check_crisis, None before the call
    user_sessions,   \* table user_sessions: a set of rows
    interactions,    \* table interactions: a set of rows
    crisis_events,   \* table crisis_events: a set of rows
    n_session_ids,   \* number of uuid4() session ids generated so far
    n_interaction_ids, \* number of uuid4() interaction ids generated so far
    n_crisis_ids,    \* number of uuid4() crisis event ids generated so far
    today,           \* datetime.now().date(): the calendar date of the clock
    daily_checkins,  \* table daily_checkins: a set of rows
    user_streaks,    \* table user_streaks: a set of rows
    n_checkin_ids,   \* number of uuid4() check-in ids stored so far
    streak_info,     \* last get_user_streak_info call: argument and return
    calls,           \* save_daily_checkin calls under way, one per thread
    db_lock,         \* the connection holding SQLite's write lock, or None
    streaks_before,  \* table user_streaks before the calls under way began
    http_request,    \* the last /analyze_text or /analyze_multimodal request
    http_response,   \* the status code and body it was answered with
    alert_calls,     \* send_emergency_alert calls made while handling it
    activity_call,   \* get_recommendations arguments
    recommended,     \* value returned by get_recommendations, None before
    crisis_alerts,   \* last get_crisis_alerts call: its argument and result
    insights         \* last get_streak_insights result of submit_daily_checkin

crisis_vars == <<text, mood_score, user_location, crisis_result>>

ledger_vars == <<user_sessions, interactions, crisis_events,
                 n_session_ids, n_interaction_ids, n_crisis_ids>>

streak_vars == <<today, daily_checkins, user_streaks, n_checkin_ids,
                 streak_info>>

txn_vars == <<calls, db_lock, streaks_before>>

api_vars == <<http_request, http_response, alert_calls>>

aux_vars == <<activity_call, recommended, crisis_alerts, insights>>

vars == <<crisis_vars, ledger_vars, streak_vars, txn_vars, api_vars, aux_vars>>

None == <<>>
Some(v) == <<v>>

-----------------------------------------------------------------------------
(* Bounds of the model *)

MaxTextLen == 3
MaxIds == 4
MaxDay == 8
MaxCheckins == 9
MaxShortDay == 3
MaxShortCheckins == 3
MaxCalls == 2
MaxPriorDays == 2
MaxActivities == 7

-----------------------------------------------------------------------------
(* CrisisDetector.__init__ : keyword tables and helplines *)

crisis_keywords ==
    << <<"suicide">>, <<"kill", "myself">>, <<"end", "it", "all">>,
       <<"end", "my", "life">>, <<"take", "my", "life">>,
       <<"don't", "want", "to", "live">>, <<"better", "off", "dead">>,
       <<"want", "to", "die">>, <<"kill", "me">>,
       <<"suicide", "plan">>, <<"suicidal">>, <<"end", "it">>,
       <<"no", "point", "living">>,
       <<"hurt", "myself">>, <<"cut", "myself">>, <<"harm", "myself">>,
       <<"self", "harm">>, <<"self-harm">>,
       <<"cutting">>, <<"burning", "myself">>, <<"punish", "myself">>,
       <<"hopeless">>, <<"no", "hope">>, <<"nothing", "matters">>,
       <<"pointless">>, <<"worthless">>,
       <<"useless">>, <<"failure">>, <<"can't", "go", "on">>,
       <<"give", "up">>, <<"no", "way", "out">>,
       <<"trapped">>, <<"stuck", "forever">>, <<"never", "get", "better">>,
       <<"nobody", "cares">>, <<"alone", "forever">>,
       <<"no", "one", "understands">>, <<"abandoned">>,
       <<"empty", "inside">>, <<"numb">>, <<"can't", "feel", "anything">>,
       <<"dead", "inside">>,
       <<"can't", "take", "it", "anymore">>, <<"at", "my", "limit">>,
       <<"breaking", "point">>, <<"lost", "everything">>,
       <<"nothing", "left">>, <<"final", "straw">>, <<"had", "enough">>,
       <<"over", "it">> >>

high_severity_keywords ==
    << <<"suicide">>, <<"kill", "myself">>, <<"end", "my", "life">>,
       <<"want", "to", "die">>, <<"better", "off", "dead">>,
       <<"suicide", "plan">>, <<"take", "my", "life">>,
       <<"end", "it", "all">> >>

medium_severity_keywords ==
    << <<"hurt", "myself">>, <<"cut", "myself">>, <<"self", "harm">>,
       <<"hopeless">>, <<"worthless">>,
       <<"can't", "go", "on">>, <<"give", "up">>, <<"no", "way", "out">> >>

helplines ==
    [international |-> "Find A Helpline",
     us            |-> "988 Suicide & Crisis Lifeline",
     uk            |-> "Samaritans",
     india         |-> "AASRA"]

-----------------------------------------------------------------------------
(* Inputs of check_crisis *)

\* Words a text of the model is made of: parts of high, medium and
\* low severity keywords (neutral on their own) and an upper-case spelling.
TextWords ==
    {"suicide", "end", "it", "all", "hopeless", "numb", "Hopeless"}

RECURSIVE SeqsUpTo(_, _)
SeqsUpTo(S, n) ==
    IF n = 0 THEN {<<>>}
    ELSE LET shorter == SeqsUpTo(S, n - 1)
         IN  shorter \cup {Append(s, w) : s \in shorter, w \in S}

Texts == SeqsUpTo(TextWords, MaxTextLen)

\* Hundredths on both sides of the thresholds -0.8 and -0.6.
MoodScores == {-81, -80, -61, -60, 80}

Locations == {"international", "US", "mars"}

-----------------------------------------------------------------------------
(* str.lower() and the `in` operator *)

LowerWord(w) ==
    CASE w = "Hopeless" -> "hopeless"
      [] w = "SUICIDE"  -> "suicide"
      [] w = "US"       -> "us"
      [] w = "UK"       -> "uk"
      [] w = "India"    -> "india"
      [] OTHER          -> w

Lower(txt) == [i \in 1..Len(txt) |-> LowerWord(txt[i])]

\* `keyword in text_lower` for str: the keyword occurs contiguously.
Contains(txt, keyword) ==
    \E i \in 1..(Len(txt) - Len(keyword) + 1) :
        SubSeq(txt, i, i + Len(keyword) - 1) = keyword

\* `keyword in some_list` for list.
InList(list, keyword) == \E i \in 1..Len(list) : list[i] = keyword

-----------------------------------------------------------------------------
(* CrisisDetector.analyze_crisis_level *)

\* Mutant: the low tier is assigned without testing for "none".
SeverityStep_LowOverrides(severity_level, keyword) ==
    IF InList(high_severity_keywords, keyword) THEN "high"
    ELSE IF InList(medium_severity_keywords, keyword) /\ severity_level # "high"
         THEN "medium"
    ELSE "low"

\* Mutant: a medium keyword is assigned without testing for "high".
SeverityStep_MediumOverrides(severity_level, keyword) ==
    IF InList(high_severity_keywords, keyword) THEN "high"
    ELSE IF InList(medium_severity_keywords, keyword) THEN "medium"
    ELSE IF severity_level = "none" THEN "low"
    ELSE severity_level

\* The body of the for loop, for one matched keyword.
SeverityStep(severity_level, keyword) ==
    IF InList(high_severity_keywords, keyword) THEN "high"
    ELSE IF InList(medium_severity_keywords, keyword) /\ severity_level # "high"
         THEN "medium"
    ELSE IF severity_level = "none" THEN "low"
    ELSE severity_level

\* The for loop over `keywords`, from index i on, with the loop's state
\* (found_keywords, severity_level).
RECURSIVE ScanKeywords(_, _, _, _, _)
ScanKeywords(keywords, i, text_lower, found_keywords, severity_level) ==
    IF i > Len(keywords)
    THEN [found_keywords |-> found_keywords, severity_level |-> severity_level]
    ELSE IF Contains(text_lower, keywords[i])
         THEN ScanKeywords(keywords, i + 1, text_lower,
                           Append(found_keywords, keywords[i]),
                           SeverityStep(severity_level, keywords[i]))
         ELSE ScanKeywords(keywords, i + 1, text_lower,
                           found_keywords, severity_level)

\* Mutant: the sentiment threshold is inclusive.
SentimentCrisis_Inclusive(score) == score <= -80

SentimentCrisis(score) == score < -80

\* Mutant: "high" needs more than two keywords.
CrisisLevel_ThreeKeywords(severity_level, sentiment_crisis, n_found, score) ==
    IF severity_level = "high" \/ (sentiment_crisis /\ n_found > 0)
    THEN "critical"
    ELSE IF severity_level = "medium" \/ sentiment_crisis \/ n_found > 2
    THEN "high"
    ELSE IF n_found > 0 \/ score < -60
    THEN "moderate"
    ELSE "none"

\* Mutant: the "moderate" mood threshold is inclusive.
CrisisLevel_InclusiveModerate(severity_level, sentiment_crisis, n_found, score) ==
    IF severity_level = "high" \/ (sentiment_crisis /\ n_found > 0)
    THEN "critical"
    ELSE IF severity_level = "medium" \/ sentiment_crisis \/ n_found >= 2
    THEN "high"
    ELSE IF n_found > 0 \/ score <= -60
    THEN "moderate"
    ELSE "none"

CrisisLevel(severity_level, sentiment_crisis, n_found, score) ==
    IF severity_level = "high" \/ (sentiment_crisis /\ n_found > 0)
    THEN "critical"
    ELSE IF severity_level = "medium" \/ sentiment_crisis \/ n_found >= 2
    THEN "high"
    ELSE IF n_found > 0 \/ score < -60
    THEN "moderate"
    ELSE "none"

analyze_crisis_level(txt, score) ==
    LET scan == ScanKeywords(crisis_keywords, 1, Lower(txt), <<>>, "none")
        found_keywords   == scan.found_keywords
        severity_level   == scan.severity_level
        sentiment_crisis == SentimentCrisis(score)
        is_crisis == \/ sentiment_crisis
                     \/ Len(found_keywords) > 0
                     \/ severity_level \in {"high", "medium"}
    IN  [is_crisis           |-> is_crisis,
         crisis_level        |-> CrisisLevel(severity_level, sentiment_crisis,
                                             Len(found_keywords), score),
         found_keywords      |-> found_keywords,
         sentiment_crisis    |-> sentiment_crisis,
         mood_score          |-> score,
         severity_assessment |-> severity_level]

-----------------------------------------------------------------------------
(* CrisisDetector._get_helplines and get_crisis_response *)

\* Mutant: the location is looked up as given, without lower().
get_helplines_CaseSensitive(location) ==
    LET primary_helpline ==
            IF location \in DOMAIN helplines
            THEN helplines[location]
            ELSE helplines["international"]
    IN  [primary       |-> primary_helpline,
         international |-> helplines["international"],
         additional    |-> <<helplines["us"], helplines["uk"],
                             helplines["india"]>>]

get_helplines(location) ==
    LET location_lower == LowerWord(location)
        primary_helpline ==
            IF location_lower \in DOMAIN helplines
            THEN helplines[location_lower]
            ELSE helplines["international"]
    IN  [primary       |-> primary_helpline,
         international |-> helplines["international"],
         additional    |-> <<helplines["us"], helplines["uk"],
                             helplines["india"]>>]

\* Mutant: the moderate template asks for a follow-up.
get_crisis_response_ModerateFollowUp(crisis_analysis, location) ==
    LET crisis_level == crisis_analysis.crisis_level
    IN  IF crisis_level = "critical"
        THEN [status |-> "CRITICAL_CRISIS", priority |-> "immediate",
              message |-> Some("very concerned"),
              action_required |-> "immediate_intervention",
              helplines |-> Some(get_helplines(location)),
              immediate_steps |-> Some("emergency services"),
              follow_up_required |-> TRUE]
        ELSE IF crisis_level = "high"
        THEN [status |-> "HIGH_CRISIS", priority |-> "urgent",
              message |-> Some("concerned"),
              action_required |-> "professional_support",
              helplines |-> Some(get_helplines(location)),
              immediate_steps |-> Some("crisis helpline"),
              follow_up_required |-> TRUE]
        ELSE IF crisis_level = "moderate"
        THEN [status |-> "MODERATE_CONCERN", priority |-> "elevated",
              message |-> Some("difficult time"),
              action_required |-> "self_care_and_support",
              helplines |-> Some(get_helplines(location)),
              immediate_steps |-> Some("talk to someone"),
              follow_up_required |-> TRUE]
        ELSE [status |-> "NO_CRISIS", priority |-> "normal",
              message |-> None,
              action_required |-> "none",
              helplines |-> None,
              immediate_steps |-> None,
              follow_up_required |-> FALSE]

get_crisis_response(crisis_analysis, location) ==
    LET crisis_level == crisis_analysis.crisis_level
    IN  IF crisis_level = "critical"
        THEN [status |-> "CRITICAL_CRISIS", priority |-> "immediate",
              message |-> Some("very concerned"),
              action_required |-> "immediate_intervention",
              helplines |-> Some(get_helplines(location)),
              immediate_steps |-> Some("emergency services"),
              follow_up_required |-> TRUE]
        ELSE IF crisis_level = "high"
        THEN [status |-> "HIGH_CRISIS", priority |-> "urgent",
              message |-> Some("concerned"),
              action_required |-> "professional_support",
              helplines |-> Some(get_helplines(location)),
              immediate_steps |-> Some("crisis helpline"),
              follow_up_required |-> TRUE]
        ELSE IF crisis_level = "moderate"
        THEN [status |-> "MODERATE_CONCERN", priority |-> "elevated",
              message |-> Some("difficult time"),
              action_required |-> "self_care_and_support",
              helplines |-> Some(get_helplines(location)),
              immediate_steps |-> Some("talk to someone"),
              follow_up_required |-> FALSE]
        ELSE [status |-> "NO_CRISIS", priority |-> "normal",
              message |-> None,
              action_required |-> "none",
              helplines |-> None,
              immediate_steps |-> None,
              follow_up_required |-> FALSE]

-----------------------------------------------------------------------------
(* check_crisis *)

check_crisis(txt, score, location) ==
    LET crisis_analysis == analyze_crisis_level(txt, score)
        crisis_response == get_crisis_response(crisis_analysis, location)
    IN  [analysis |-> crisis_analysis, response |-> crisis_response]

\* One call of check_crisis on the inputs chosen in InitCrisis.
CheckCrisis ==
    /\ crisis_result = None
    /\ crisis_result' = Some(check_crisis(text, mood_score, user_location))
    /\ UNCHANGED <<text, mood_score, user_location, ledger_vars, streak_vars, txn_vars, api_vars, aux_vars>>

-----------------------------------------------------------------------------
(* datetime.date: a date is [year, month, day]; its stored form, the text  *)
(* 'YYYY-MM-DD' written by sqlite3's date adapter, is <<year, month, day>>. *)

IsLeapYear(y) == (y % 4 = 0 /\ y % 100 # 0) \/ y % 400 = 0

DaysInMonth(y, m) ==
    IF m = 2 THEN (IF IsLeapYear(y) THEN 29 ELSE 28)
    ELSE IF m \in {4, 6, 9, 11} THEN 30
    ELSE 31

\* d + timedelta(days=1)
NextDay(d) ==
    IF d.day < DaysInMonth(d.year, d.month)
    THEN [d EXCEPT !.day = @ + 1]
    ELSE IF d.month < 12
    THEN [year |-> d.year, month |-> d.month + 1, day |-> 1]
    ELSE [year |-> d.year + 1, month |-> 1, day |-> 1]

\* date.isoformat(), the adapter sqlite3 applies to a date parameter
IsoFormat(d) == <<d.year, d.month, d.day>>

\* datetime.strptime(s, '%Y-%m-%d').date()
StrpTime(str) == [year |-> str[1], month |-> str[2], day |-> str[3]]

\* The date of the clock when the model starts: the days of the model run
\* over the end of February of a leap year.
FirstDay == [year |-> 2024, month |-> 2, day |-> 26]

RECURSIVE DateAfter(_, _)
DateAfter(d, n) == IF n = 0 THEN d ELSE DateAfter(NextDay(d), n - 1)

\* The dates of the model: FirstDay and the days after it.
Calendar == [n \in 0..(MaxDay + 1) |-> DateAfter(FirstDay, n)]

\* Days elapsed between FirstDay and d, for dates of the model's calendar.
DayNumber(d) == CHOOSE n \in DOMAIN Calendar : Calendar[n] = d

\* No check_crisis call is under way.
IdleCrisis ==
    /\ text = <<>>
    /\ mood_score = 0
    /\ user_location = "international"
    /\ crisis_result = None

\* MentalHealthMonitor.init_database on an empty database file.
EmptyLedger ==
    /\ user_sessions = {}
    /\ interactions = {}
    /\ crisis_events = {}
    /\ n_session_ids = 0
    /\ n_interaction_ids = 0
    /\ n_crisis_ids = 0

\* init_database on an empty database file: no check-in, no streak row.
EmptyStreaks ==
    /\ today = FirstDay
    /\ daily_checkins = {}
    /\ user_streaks = {}
    /\ n_checkin_ids = 0
    /\ streak_info = None

\* The threads that call save_daily_checkin at the same time.
Threads == 1..MaxCalls

\* A thread that is not inside save_daily_checkin.
IdleCall == [pc |-> "idle"]

\* No save_daily_checkin call is under way.
NoCalls ==
    /\ calls = [t \in Threads |-> IdleCall]
    /\ db_lock = None
    /\ streaks_before = {}

\* get_recommendations is not being called.
NoRecommendation ==
    /\ activity_call = None
    /\ recommended = None

\* Nothing was read from the ledger or the check-ins yet.
NothingRead ==
    /\ crisis_alerts = None
    /\ insights = None

\* No request was received yet.
NoRequest ==
    /\ http_request = None
    /\ http_response = None
    /\ alert_calls = 0

InitCrisis ==
    /\ text \in Texts
    /\ mood_score \in MoodScores
    /\ user_location \in Locations
    /\ crisis_result = None
    /\ EmptyLedger
    /\ EmptyStreaks
    /\ NoCalls
    /\ NoRequest
    /\ NoRecommendation
    /\ NothingRead

NextCrisis == CheckCrisis

SpecCrisis == InitCrisis /\ [][NextCrisis]_vars

-----------------------------------------------------------------------------
(* MentalHealthMonitor: sessions, interactions and crisis events.          *)
(* Every method opens its own connection, runs its statements in one       *)
(* transaction and commits; on an exception nothing was committed and the  *)
(* connection is dropped, which rolls the transaction back.                *)

\* user_id arguments: None or a caller-supplied identifier.
UserArgs == {None, Some("u1")}

\* f"anonymous_{datetime.now().strftime('%Y%m%d_%H%M%S')}" of start_session.
AnonymousUser == "anonymous_ts"

\* f"anonymous_{int(time.time())}" of the request handlers: the seconds
\* since the epoch, never the same text as the formatted date and time.
AnonymousRequestUser == "anonymous_epoch"

\* user_id values passed to log_interaction and log_crisis_event.
UserIds == {"u1"}

\* Mood scores logged with an interaction, in hundredths.
LoggedMoods == {-90, 10}

\* A session id the caller supplies that no start_session generated.
ForeignSessionId == 0

Abs(n) == IF n < 0 THEN -n ELSE n

RECURSIVE Gcd(_, _)
Gcd(a, b) == IF b = 0 THEN a ELSE Gcd(b, a % b)

\* A REAL value as a reduced fraction <<numerator, denominator>>.
Fraction(num, den) ==
    LET g == Gcd(Abs(num), den)
    IN  IF g = 0 THEN <<0, 1>> ELSE <<num \div g, den \div g>>

RECURSIVE SumMood(_)
SumMood(rows) ==
    IF rows = {} THEN 0
    ELSE LET r == CHOOSE x \in rows : TRUE
         IN  r.mood_score + SumMood(rows \ {r})

\* SELECT AVG(mood_score) FROM interactions WHERE session_id = ?
AvgMood(rows, session_id) ==
    LET mine == {r \in rows : r.session_id = session_id}
    IN  IF mine = {} THEN None
        ELSE Some(Fraction(SumMood(mine), Cardinality(mine)))

\* INSERT INTO user_sessions (id, user_id, session_start)
NewSession(session_id, user_id) ==
    [id |-> session_id, user_id |-> user_id, session_end |-> FALSE,
     total_interactions |-> 0, crisis_events |-> 0,
     average_mood_score |-> None]

\* INSERT INTO interactions (...)
NewInteraction(interaction_id, session_id, user_id, score, is_crisis) ==
    [id |-> interaction_id, session_id |-> session_id, user_id |-> user_id,
     mood_score |-> score, is_crisis |-> is_crisis]

\* Mutant: the crisis counter is incremented for every interaction.
UpdateSessionStatistics_CountAll(sessions, rows, session_id, is_crisis) ==
    {IF s.id = session_id
     THEN [s EXCEPT !.total_interactions = @ + 1,
                    !.crisis_events = @ + 1,
                    !.average_mood_score = AvgMood(rows, session_id)]
     ELSE s : s \in sessions}

\* UPDATE user_sessions SET total_interactions = total_interactions + 1,
\*   crisis_events = crisis_events + ?, average_mood_score = (SELECT AVG...)
\* WHERE id = ?   -- `rows` is the interactions table after the INSERT
UpdateSessionStatistics(sessions, rows, session_id, is_crisis) ==
    {IF s.id = session_id
     THEN [s EXCEPT !.total_interactions = @ + 1,
                    !.crisis_events = @ + (IF is_crisis THEN 1 ELSE 0),
                    !.average_mood_score = AvgMood(rows, session_id)]
     ELSE s : s \in sessions}

\* json.dumps(notification_results) if notification_results else None
StoredResults(notification_results) ==
    IF notification_results = None THEN None
    ELSE Some([json |-> notification_results[1]])

\* INSERT INTO crisis_events (...); follow_up_completed defaults to FALSE
\* and resolution_status to NULL.
NewCrisisEvent(crisis_id, interaction_id, user_id, follow_up_required, emergency_contacts_notified, notification_results) ==
    [id |-> crisis_id, interaction_id |-> interaction_id, user_id |-> user_id,
     emergency_contacts_notified |-> emergency_contacts_notified,
     notification_results |-> StoredResults(notification_results),
     follow_up_required |-> follow_up_required,
     follow_up_completed |-> FALSE,
     resolution_status |-> None]

\* uuid4() calls made so far; the model stops generating ids at MaxIds.
IdsGenerated == n_session_ids + n_interaction_ids + n_crisis_ids

\* MentalHealthMonitor.start_session
StartSession ==
    /\ IdsGenerated < MaxIds
    /\ \E user_arg \in UserArgs, ok \in BOOLEAN :
         LET session_id == n_session_ids + 1
             user_id == IF user_arg = None THEN AnonymousUser ELSE user_arg[1]
         IN  /\ n_session_ids' = session_id
             /\ user_sessions' =
                    IF ok THEN user_sessions \cup {NewSession(session_id, user_id)}
                    ELSE user_sessions
    /\ UNCHANGED <<interactions, crisis_events, n_interaction_ids,
                   n_crisis_ids, crisis_vars, streak_vars, txn_vars, api_vars, aux_vars>>

\* Mutant: a failure after the INSERT keeps the row without the UPDATE.
log_interaction_KeepsInsert(ok, interaction_id, session_id, user_id, score, is_crisis) ==
    LET rows == interactions \cup
                  {NewInteraction(interaction_id, session_id, user_id,
                                  score, is_crisis)}
    IN  IF ok
        THEN [interactions  |-> rows,
              user_sessions |-> UpdateSessionStatistics(user_sessions, rows,
                                                        session_id, is_crisis)]
        ELSE [interactions |-> rows, user_sessions |-> user_sessions]

\* The tables after log_interaction: both statements committed, or neither.
log_interaction(ok, interaction_id, session_id, user_id, score, is_crisis) ==
    LET rows == interactions \cup
                  {NewInteraction(interaction_id, session_id, user_id,
                                  score, is_crisis)}
    IN  IF ok
        THEN [interactions  |-> rows,
              user_sessions |-> UpdateSessionStatistics(user_sessions, rows,
                                                        session_id, is_crisis)]
        ELSE [interactions |-> interactions, user_sessions |-> user_sessions]

\* The crisis_events table after log_crisis_event.
log_crisis_event(ok, crisis_id, interaction_id, user_id, follow_up_required, emergency_contacts_notified, notification_results) ==
    IF ok
    THEN crisis_events \cup {NewCrisisEvent(crisis_id, interaction_id, user_id,
                                            follow_up_required,
                                            emergency_contacts_notified,
                                            notification_results)}
    ELSE crisis_events

\* MentalHealthMonitor.log_interaction, called directly.
LogInteraction ==
    /\ IdsGenerated < MaxIds
    /\ \E session_id \in {ForeignSessionId} \cup 1..n_session_ids,
          user_id \in UserIds, score \in LoggedMoods,
          is_crisis \in BOOLEAN, ok \in BOOLEAN :
         LET interaction_id == n_interaction_ids + 1
             after == log_interaction(ok, interaction_id, session_id, user_id,
                                      score, is_crisis)
         IN  /\ n_interaction_ids' = interaction_id
             /\ interactions' = after.interactions
             /\ user_sessions' = after.user_sessions
    /\ UNCHANGED <<crisis_events, n_session_ids, n_crisis_ids, crisis_vars,
                   streak_vars, txn_vars, api_vars, aux_vars>>

\* MentalHealthMonitor.log_crisis_event, called directly with an id that a
\* log_interaction call returned and the defaults of the notification
\* arguments.
LogCrisisEvent ==
    /\ IdsGenerated < MaxIds
    /\ \E interaction_id \in 1..n_interaction_ids, user_id \in UserIds,
          follow_up_required \in BOOLEAN, ok \in BOOLEAN :
         LET crisis_id == n_crisis_ids + 1
         IN  /\ n_crisis_ids' = crisis_id
             /\ crisis_events' = log_crisis_event(ok, crisis_id, interaction_id,
                                                  user_id, follow_up_required,
                                                  FALSE, None)
    /\ UNCHANGED <<user_sessions, interactions, n_session_ids,
                   n_interaction_ids, crisis_vars, streak_vars, txn_vars, api_vars, aux_vars>>

\* log_request: log_interaction, then log_crisis_event when is_crisis, each
\* on its own connection and with its own outcome.
LogRequest ==
    /\ IdsGenerated < MaxIds
    /\ \E session_id \in {ForeignSessionId} \cup 1..n_session_ids,
          user_id \in UserIds, score \in LoggedMoods,
          is_crisis \in BOOLEAN, follow_up_required \in BOOLEAN,
          ok_interaction \in BOOLEAN, ok_crisis \in BOOLEAN :
         LET interaction_id == n_interaction_ids + 1
             after == log_interaction(ok_interaction, interaction_id,
                                      session_id, user_id, score, is_crisis)
             crisis_id == n_crisis_ids + 1
         IN  /\ is_crisis => IdsGenerated + 1 < MaxIds
             /\ n_interaction_ids' = interaction_id
             /\ interactions' = after.interactions
             /\ user_sessions' = after.user_sessions
             /\ IF is_crisis
                THEN /\ n_crisis_ids' = crisis_id
                     /\ crisis_events' =
                            log_crisis_event(ok_crisis, crisis_id,
                                             interaction_id, user_id,
                                             follow_up_required, FALSE, None)
                ELSE UNCHANGED <<n_crisis_ids, crisis_events>>
    /\ UNCHANGED <<n_session_ids, crisis_vars, streak_vars, txn_vars, api_vars, aux_vars>>

\* MentalHealthMonitor.end_session
EndSession ==
    /\ \E session_id \in {ForeignSessionId} \cup 1..n_session_ids,
          ok \in BOOLEAN :
         /\ user_sessions' =
                IF ok THEN {IF s.id = session_id
                            THEN [s EXCEPT !.session_end = TRUE]
                            ELSE s : s \in user_sessions}
                ELSE user_sessions
    /\ UNCHANGED <<interactions, crisis_events, n_session_ids,
                   n_interaction_ids, n_crisis_ids, crisis_vars, streak_vars,
                   txn_vars, api_vars, aux_vars>>

\* resolution_status arguments of mark_crisis_resolved.
ResolutionStatuses == {"resolved", "unresolved"}

\* A crisis id no stored event has.
UnknownCrisisId == 0

\* Mutant: only the status "resolved" completes the follow-up.
MarkResolved_ByStatus(event, resolution_status) ==
    [event EXCEPT !.follow_up_completed = (resolution_status = "resolved"),
                  !.resolution_status = Some(resolution_status)]

\* SET follow_up_completed = TRUE, resolution_status = ?
MarkResolved(event, resolution_status) ==
    [event EXCEPT !.follow_up_completed = TRUE,
                  !.resolution_status = Some(resolution_status)]

\* The crisis_events table after mark_crisis_resolved.
mark_crisis_resolved(ok, crisis_id, resolution_status) ==
    IF ok
    THEN {IF e.id = crisis_id THEN MarkResolved(e, resolution_status) ELSE e :
            e \in crisis_events}
    ELSE crisis_events

\* MentalHealthMonitor.mark_crisis_resolved
MarkCrisisResolved ==
    /\ \E crisis_id \in {UnknownCrisisId} \cup 1..n_crisis_ids,
          resolution_status \in ResolutionStatuses, ok \in BOOLEAN :
         crisis_events' = mark_crisis_resolved(ok, crisis_id, resolution_status)
    /\ UNCHANGED <<user_sessions, interactions, n_session_ids,
                   n_interaction_ids, n_crisis_ids, crisis_vars, streak_vars,
                   txn_vars, api_vars, aux_vars>>

\* ORDER BY ce.timestamp DESC: events are stamped when they are inserted,
\* so the latest event is the one with the greatest id.
RECURSIVE LatestFirst(_)
LatestFirst(events) ==
    IF events = {} THEN <<>>
    ELSE LET latest == CHOOSE e \in events : \A o \in events : o.id <= e.id
         IN  <<latest>> \o LatestFirst(events \ {latest})

\* FROM crisis_events ce JOIN interactions i ON ce.interaction_id = i.id
JoinInteractions(events) ==
    {e \in events : \E i \in interactions : i.id = e.interaction_id}

\* The list get_crisis_alerts returns; [] when the query raised.
get_crisis_alerts(ok, unresolved_only) ==
    IF ~ok THEN <<>>
    ELSE LatestFirst({e \in JoinInteractions(crisis_events) :
                        /\ e.follow_up_required
                        /\ unresolved_only => ~e.follow_up_completed})

\* MentalHealthMonitor.get_crisis_alerts
GetCrisisAlerts ==
    /\ \E unresolved_only \in BOOLEAN, ok \in BOOLEAN :
         crisis_alerts' = Some([unresolved_only |-> unresolved_only,
                                alerts |-> get_crisis_alerts(ok, unresolved_only)])
    /\ UNCHANGED <<activity_call, recommended, insights, crisis_vars,
                   ledger_vars, streak_vars, txn_vars, api_vars>>

InitLedger ==
    /\ IdleCrisis
    /\ EmptyLedger
    /\ EmptyStreaks
    /\ NoCalls
    /\ NoRequest
    /\ NoRecommendation
    /\ NothingRead

NextLedger ==
    \/ StartSession
    \/ LogInteraction
    \/ LogCrisisEvent
    \/ LogRequest
    \/ EndSession

SpecLedger == InitLedger /\ [][NextLedger]_vars

\* The follow-up of crisis events: requests are logged, events are marked
\* resolved and the alerts are listed, in any order.
NextFollowUp ==
    \/ LogRequest
    \/ MarkCrisisResolved
    \/ GetCrisisAlerts

SpecFollowUp == InitLedger /\ [][NextFollowUp]_vars

-----------------------------------------------------------------------------
(* MentalHealthMonitor: daily check-ins and streaks *)

CheckinUsers == {"u1", "u2"}

\* The user of the long runs of check-ins.
StreakUsers == {"u1"}

\* wellness_score values of a check-in, 0..100.
WellnessScores == {40, 70}

\* The wellness_score of the check-ins of the long runs.
StreakScores == {70}

milestone_days == <<7, 14, 30, 60, 100, 365>>

\* cursor.fetchone() of SELECT ... FROM user_streaks WHERE user_id = ?
FetchStreak(streaks, user_id) ==
    LET rows == {r \in streaks : r.user_id = user_id}
    IN  IF rows = {} THEN None ELSE Some(CHOOSE r \in rows : TRUE)

\* Mutant: the streak counts check-ins, not days.
NewStreak_CountsCheckins(current_streak, last_checkin, checkin_date) ==
    IF last_checkin = None THEN 1
    ELSE current_streak + 1

\* Mutant: a same-day check-in counts as a consecutive day.
NewStreak_SameDayCounts(current_streak, last_checkin, checkin_date) ==
    IF last_checkin = None THEN 1
    ELSE IF checkin_date = last_checkin[1] THEN current_streak + 1
    ELSE IF checkin_date = NextDay(last_checkin[1]) THEN current_streak + 1
    ELSE 1

\* Mutant: a broken streak is not reset.
NewStreak_NoReset(current_streak, last_checkin, checkin_date) ==
    IF last_checkin = None THEN 1
    ELSE IF checkin_date = last_checkin[1] THEN current_streak
    ELSE current_streak + 1

\* "Calculate new streak"
NewStreak(current_streak, last_checkin, checkin_date) ==
    IF last_checkin = None THEN 1
    ELSE IF checkin_date = last_checkin[1] THEN current_streak
    ELSE IF checkin_date = NextDay(last_checkin[1]) THEN current_streak + 1
    ELSE 1

\* Mutant: the longest streak is overwritten by the new streak.
Max_Latest(a, b) == b

Max(a, b) == IF a >= b THEN a ELSE b

\* Mutant: the check-in counter is written back as it was read.
NewTotalCheckins_Unchanged(total_checkins) == total_checkins

\* total_checkins + 1 in the INSERT OR REPLACE INTO user_streaks
NewTotalCheckins(total_checkins) == total_checkins + 1

\* Mutant: a milestone is recorded only once the streak exceeds it.
MilestoneReached_Strict(new_streak, milestone, milestones) ==
    new_streak > milestone /\ ~InList(milestones, milestone)

\* Mutant: a threshold is appended whenever the streak is at or above it.
MilestoneReached_Again(new_streak, milestone, milestones) ==
    new_streak >= milestone

\* new_streak >= milestone and milestone not in milestones
MilestoneReached(new_streak, milestone, milestones) ==
    new_streak >= milestone /\ ~InList(milestones, milestone)

\* "Check for new milestones": the loop over milestone_days from index i.
RECURSIVE AddMilestones(_, _, _)
AddMilestones(milestones, new_streak, i) ==
    IF i > Len(milestone_days) THEN milestones
    ELSE IF MilestoneReached(new_streak, milestone_days[i], milestones)
         THEN AddMilestones(Append(milestones, milestone_days[i]),
                            new_streak, i + 1)
         ELSE AddMilestones(milestones, new_streak, i + 1)

\* MentalHealthMonitor._update_user_streak: the user_streaks table after it.
update_user_streak(streaks, user_id, checkin_date) ==
    LET result == FetchStreak(streaks, user_id)
        current_streak == IF result # None THEN result[1].current_streak ELSE 0
        longest_streak == IF result # None THEN result[1].longest_streak ELSE 0
        last_checkin ==
            IF result # None /\ result[1].last_checkin_date # None
            THEN Some(StrpTime(result[1].last_checkin_date[1]))
            ELSE None
        total_checkins == IF result # None THEN result[1].total_checkins ELSE 0
        milestones == IF result # None THEN result[1].streak_milestones ELSE <<>>
        new_streak == NewStreak(current_streak, last_checkin, checkin_date)
        new_longest == Max(longest_streak, new_streak)
        row == [user_id           |-> user_id,
                current_streak    |-> new_streak,
                longest_streak    |-> new_longest,
                last_checkin_date |-> Some(IsoFormat(checkin_date)),
                total_checkins    |-> NewTotalCheckins(total_checkins),
                streak_milestones |-> AddMilestones(milestones, new_streak, 1)]
    IN  \* INSERT OR REPLACE, user_id is the primary key
        {r \in streaks : r.user_id # user_id} \cup {row}

\* Mutant: a plain INSERT without the UNIQUE(user_id, date) constraint.
UpsertCheckin_Append(checkins, checkin_id, user_id, date, wellness_score) ==
    checkins
      \cup {[id |-> checkin_id, user_id |-> user_id, date |-> IsoFormat(date),
             wellness_score |-> wellness_score]}

\* INSERT OR REPLACE INTO daily_checkins, UNIQUE(user_id, date)
UpsertCheckin(checkins, checkin_id, user_id, date, wellness_score) ==
    {r \in checkins : ~(r.user_id = user_id /\ r.date = IsoFormat(date))}
      \cup {[id |-> checkin_id, user_id |-> user_id, date |-> IsoFormat(date),
             wellness_score |-> wellness_score]}

RECURSIVE SumTotalCheckins(_)
SumTotalCheckins(rows) ==
    IF rows = {} THEN 0
    ELSE LET r == CHOOSE x \in rows : TRUE
         IN  r.total_checkins + SumTotalCheckins(rows \ {r})

\* MentalHealthMonitor.save_daily_checkin: the check-in row and the streak
\* row are written in one transaction; on an exception neither is stored.
\* Called for a user of `users` with a score of `scores` while fewer than
\* `max_checkins` check-ins were counted.
SaveDailyCheckinOf(users, scores, max_checkins) ==
    /\ SumTotalCheckins(user_streaks) < max_checkins
    /\ \E user_id \in users, wellness_score \in scores,
          ok \in BOOLEAN :
         IF ok
         THEN /\ n_checkin_ids' = n_checkin_ids + 1
              /\ daily_checkins' = UpsertCheckin(daily_checkins, n_checkin_ids',
                                                 user_id, today, wellness_score)
              /\ user_streaks' = update_user_streak(user_streaks, user_id, today)
         ELSE UNCHANGED <<daily_checkins, user_streaks, n_checkin_ids>>
    /\ UNCHANGED <<today, streak_info, crisis_vars, ledger_vars, txn_vars, api_vars, aux_vars>>

SaveDailyCheckin == SaveDailyCheckinOf(StreakUsers, StreakScores, MaxCheckins)

\* The clock passes midnight, up to day number `max_day`.
TickTo(max_day) ==
    /\ DayNumber(today) < max_day
    /\ today' = NextDay(today)
    /\ UNCHANGED <<daily_checkins, user_streaks, n_checkin_ids, streak_info,
                   crisis_vars, ledger_vars, txn_vars, api_vars, aux_vars>>

Tick == TickTo(MaxDay)

InitStreak ==
    /\ IdleCrisis
    /\ EmptyLedger
    /\ EmptyStreaks
    /\ NoCalls
    /\ NoRequest
    /\ NoRecommendation
    /\ NothingRead

NextStreak ==
    \/ SaveDailyCheckin
    \/ Tick

SpecStreak == InitStreak /\ [][NextStreak]_vars

-----------------------------------------------------------------------------
(* MentalHealthMonitor: check-ins of several users and the streak report *)

\* Mutant: a streak whose last check-in was yesterday is reported broken.
StreakBroken_Yesterday(last_checkin, now) ==
    /\ last_checkin # None
    /\ DayNumber(now) - DayNumber(last_checkin[1]) >= 1

\* last_checkin and (today - last_checkin).days > 1
StreakBroken(last_checkin, now) ==
    /\ last_checkin # None
    /\ DayNumber(now) - DayNumber(last_checkin[1]) > 1

\* MentalHealthMonitor.get_user_streak_info: the dictionary returned.
get_user_streak_info(ok, user_id) ==
    LET result == FetchStreak(user_streaks, user_id)
        last_checkin ==
            IF result # None /\ result[1].last_checkin_date # None
            THEN Some(StrpTime(result[1].last_checkin_date[1]))
            ELSE None
    IN  IF ~ok THEN [error |-> "exception"]
        ELSE IF result # None
        THEN [current_streak |->
                 IF StreakBroken(last_checkin, today) THEN 0
                 ELSE result[1].current_streak,
              longest_streak |-> result[1].longest_streak,
              last_checkin_date |-> result[1].last_checkin_date,
              total_checkins |-> result[1].total_checkins,
              milestones_achieved |-> result[1].streak_milestones,
              checked_in_today |->
                 IF last_checkin # None THEN last_checkin[1] = today
                 ELSE FALSE]
        ELSE [current_streak |-> 0,
              longest_streak |-> 0,
              last_checkin_date |-> None,
              total_checkins |-> 0,
              milestones_achieved |-> <<>>,
              checked_in_today |-> FALSE]

\* A call of get_user_streak_info: a SELECT, no write.
GetUserStreakInfo ==
    /\ \E user_id \in CheckinUsers, ok \in BOOLEAN :
         streak_info' = Some([user_id |-> user_id,
                              returned |-> get_user_streak_info(ok, user_id)])
    /\ UNCHANGED <<today, daily_checkins, user_streaks, n_checkin_ids,
                   crisis_vars, ledger_vars, txn_vars, api_vars, aux_vars>>

SaveAnyDailyCheckin ==
    SaveDailyCheckinOf(CheckinUsers, WellnessScores, MaxShortCheckins)

ShortTick == TickTo(MaxShortDay)

InitCheckin ==
    /\ IdleCrisis
    /\ EmptyLedger
    /\ EmptyStreaks
    /\ NoCalls
    /\ NoRequest
    /\ NoRecommendation
    /\ NothingRead

NextCheckin ==
    \/ SaveAnyDailyCheckin
    \/ ShortTick
    \/ GetUserStreakInfo

SpecCheckin == InitCheckin /\ [][NextCheckin]_vars

-----------------------------------------------------------------------------
(* api/main.py submit_daily_checkin: the insights of the response, from     *)
(* get_user_daily_scores and DailyQuestionsEngine.get_streak_insights.      *)

\* calculate_daily_score, "Determine wellness category"
WellnessCategory(overall_score) ==
    IF overall_score >= 80 THEN "excellent"
    ELSE IF overall_score >= 65 THEN "good"
    ELSE IF overall_score >= 50 THEN "fair"
    ELSE IF overall_score >= 35 THEN "concerning"
    ELSE "critical"

\* days=30 in submit_daily_checkin
ScoreWindowDays == 30

\* ORDER BY date DESC: the rows of one user, the latest date first.
RECURSIVE DateDesc(_)
DateDesc(rows) ==
    IF rows = {} THEN <<>>
    ELSE LET latest == CHOOSE r \in rows :
                          \A o \in rows : DayNumber(StrpTime(o.date))
                                             <= DayNumber(StrpTime(r.date))
         IN  <<latest>> \o DateDesc(rows \ {latest})

\* MentalHealthMonitor.get_user_daily_scores: [] when the query raised.
\* The stored wellness_category is the one calculate_daily_score derived
\* from the stored score.
get_user_daily_scores(ok, user_id, days) ==
    IF ~ok THEN <<>>
    ELSE LET results ==
                 DateDesc({r \in daily_checkins :
                             /\ r.user_id = user_id
                             /\ DayNumber(StrpTime(r.date))
                                  >= DayNumber(today) - days})
         IN  [k \in 1..Len(results) |->
                 [date |-> results[k].date,
                  overall_score |-> results[k].wellness_score,
                  wellness_category |->
                      WellnessCategory(results[k].wellness_score)]]

\* seq[-n:]
LastItems(seq, n) ==
    IF Len(seq) <= n THEN seq ELSE SubSeq(seq, Len(seq) - n + 1, Len(seq))

RECURSIVE SumSeq(_)
SumSeq(seq) == IF seq = <<>> THEN 0 ELSE Head(seq) + SumSeq(Tail(seq))

\* round(num / den, 1) in tenths; a tie goes to the even tenth.
RoundTenths(num, den) ==
    LET q == (10 * num) \div den
        r == (10 * num) % den
    IN  IF 2 * r > den \/ (2 * r = den /\ q % 2 = 1) THEN q + 1 ELSE q

\* DailyQuestionsEngine.get_streak_insights; average_score is in tenths.
get_streak_insights(daily_scores) ==
    IF daily_scores = <<>> THEN [message |-> "start your streak"]
    ELSE LET last7 == LastItems(daily_scores, 7)
             scores == [k \in 1..Len(last7) |-> last7[k].overall_score]
             n == Len(scores)
             trend == IF n >= 2
                      THEN IF scores[n] > scores[1] THEN "improving"
                           ELSE IF scores[n] < scores[1] THEN "declining"
                           ELSE "stable"
                      ELSE "stable"
         IN  [current_streak |-> Len(daily_scores),
              average_score |-> RoundTenths(SumSeq(scores), n),
              trend |-> trend,
              wellness_level |->
                  daily_scores[Len(daily_scores)].wellness_category]

\* submit_daily_checkin after save_daily_checkin: the scores are read on a
\* connection of their own and the insights are computed from them.
GetStreakInsights ==
    /\ \E user_id \in StreakUsers, ok \in BOOLEAN :
         insights' = Some([user_id |-> user_id,
                           returned |-> get_streak_insights(
                               get_user_daily_scores(ok, user_id,
                                                     ScoreWindowDays))])
    /\ UNCHANGED <<activity_call, recommended, crisis_alerts, crisis_vars,
                   ledger_vars, streak_vars, txn_vars, api_vars>>

\* save_daily_checkin of submit_daily_checkin, with either score.
SaveScoredCheckin ==
    SaveDailyCheckinOf(StreakUsers, WellnessScores, MaxShortCheckins)

NextInsights ==
    \/ SaveScoredCheckin
    \/ ShortTick
    \/ GetStreakInsights

SpecInsights == InitCheckin /\ [][NextInsights]_vars

-----------------------------------------------------------------------------
(* MentalHealthMonitor.save_daily_checkin called by several threads at once. *)
(* Each call has its own connection.  sqlite3 opens the transaction before   *)
(* the first INSERT, which takes the database's write lock; a connection     *)
(* that cannot get the lock within the timeout raises "database is locked".  *)
(* The statements of a transaction are stored at its commit; a call that     *)
(* raises drops its connection, which rolls the transaction back.            *)

\* The tables after `days` check-ins of user_id on consecutive days from
\* FirstDay, made one after the other.
RECURSIVE CheckinsOnDays(_, _)
CheckinsOnDays(user_id, days) ==
    IF days = 0 THEN [daily_checkins |-> {}, user_streaks |-> {}]
    ELSE LET before == CheckinsOnDays(user_id, days - 1)
             date   == DateAfter(FirstDay, days - 1)
         IN  [daily_checkins |->
                 UpsertCheckin(before.daily_checkins, days, user_id, date,
                               CHOOSE w \in StreakScores : TRUE),
              user_streaks |->
                 update_user_streak(before.user_streaks, user_id, date)]

\* checkin_id = str(uuid.uuid4()); today = datetime.now().date()
BeginSave(t) ==
    /\ calls[t].pc = "idle"
    /\ \E user_id \in StreakUsers, wellness_score \in WellnessScores :
         calls' = [calls EXCEPT ![t] =
                      [pc |-> "insert", user_id |-> user_id, today |-> today,
                       wellness_score |-> wellness_score]]
    /\ UNCHANGED <<db_lock, streaks_before, streak_vars, crisis_vars,
                   ledger_vars, api_vars, aux_vars>>

\* cursor.execute(INSERT OR REPLACE INTO daily_checkins ...): takes the
\* write lock, or raises when another connection keeps it.
InsertCheckin(t) ==
    /\ calls[t].pc = "insert"
    /\ IF db_lock = None
       THEN /\ db_lock' = Some(t)
            /\ calls' = [calls EXCEPT ![t].pc = "update_streak"]
       ELSE /\ calls' = [calls EXCEPT ![t] = [pc |-> "returned",
                                              returned |-> None]]
            /\ UNCHANGED db_lock
    /\ UNCHANGED <<streaks_before, streak_vars, crisis_vars, ledger_vars,
                   api_vars, aux_vars>>

\* self._update_user_streak(cursor, user_id, today): the SELECT and the
\* INSERT OR REPLACE, on the rows this connection sees.
UpdateUserStreak(t) ==
    /\ calls[t].pc = "update_streak"
    /\ LET seen == {r \in user_streaks : r.user_id = calls[t].user_id}
           written == update_user_streak(seen, calls[t].user_id,
                                         calls[t].today)
       IN  calls' = [calls EXCEPT ![t] =
                        [pc |-> "commit", user_id |-> calls[t].user_id,
                         today |-> calls[t].today,
                         wellness_score |-> calls[t].wellness_score,
                         written |-> written]]
    /\ UNCHANGED <<db_lock, streaks_before, streak_vars, crisis_vars,
                   ledger_vars, api_vars, aux_vars>>

\* conn.commit(); return checkin_id
CommitSave(t) ==
    /\ calls[t].pc = "commit"
    /\ n_checkin_ids' = n_checkin_ids + 1
    /\ daily_checkins' = UpsertCheckin(daily_checkins, n_checkin_ids',
                                       calls[t].user_id, calls[t].today,
                                       calls[t].wellness_score)
    /\ user_streaks' = {r \in user_streaks : r.user_id # calls[t].user_id}
                         \cup calls[t].written
    /\ db_lock' = None
    /\ calls' = [calls EXCEPT ![t] = [pc |-> "returned",
                                      returned |-> Some(n_checkin_ids')]]
    /\ UNCHANGED <<today, streak_info, streaks_before, crisis_vars,
                   ledger_vars, api_vars, aux_vars>>

\* except Exception: return None -- a statement of a call that holds the
\* lock raises; nothing of the transaction is stored.
FailSave(t) ==
    /\ calls[t].pc \in {"update_streak", "commit"}
    /\ db_lock' = None
    /\ calls' = [calls EXCEPT ![t] = [pc |-> "returned", returned |-> None]]
    /\ UNCHANGED <<streaks_before, streak_vars, crisis_vars, ledger_vars,
                   api_vars, aux_vars>>

\* The tables when the threads start: some consecutive days of check-ins,
\* the last of them today, yesterday or the day before.
InitRace ==
    /\ IdleCrisis
    /\ EmptyLedger
    /\ \E days \in 0..MaxPriorDays, gap \in 0..2 :
         LET prior == CheckinsOnDays(CHOOSE u \in StreakUsers : TRUE, days)
         IN  /\ today = DateAfter(FirstDay, Max(days - 1, 0) + gap)
             /\ daily_checkins = prior.daily_checkins
             /\ user_streaks = prior.user_streaks
             /\ n_checkin_ids = days
             /\ streaks_before = prior.user_streaks
    /\ streak_info = None
    /\ calls = [t \in Threads |-> IdleCall]
    /\ db_lock = None
    /\ NoRequest
    /\ NoRecommendation
    /\ NothingRead

NextRace ==
    \E t \in Threads :
        \/ BeginSave(t)
        \/ InsertCheckin(t)
        \/ UpdateUserStreak(t)
        \/ CommitSave(t)
        \/ FailSave(t)

SpecRace == InitRace /\ [][NextRace]_vars

-----------------------------------------------------------------------------
(* MentalHealthMonitor.log_interaction called by several threads at once    *)
(* for one session, each call on its own connection.  The INSERT opens the  *)
(* transaction and takes the write lock; the UPDATE reads the tables as the *)
(* connection sees them: what is committed and its own INSERT.              *)

\* The session all the calls log to.
RaceSession == 1

\* Mutant: a connection never finds the database locked.
WriteLockBusy_Never(lock) == FALSE

\* sqlite3.OperationalError: database is locked
WriteLockBusy(lock) == lock # None

\* interaction_id = str(uuid.uuid4())
BeginLog(t) ==
    /\ calls[t].pc = "idle"
    /\ n_interaction_ids' = n_interaction_ids + 1
    /\ \E user_id \in UserIds, score \in LoggedMoods, is_crisis \in BOOLEAN :
         calls' = [calls EXCEPT ![t] =
                      [pc |-> "insert",
                       row |-> NewInteraction(n_interaction_ids', RaceSession,
                                              user_id, score, is_crisis)]]
    /\ UNCHANGED <<user_sessions, interactions, crisis_events, n_session_ids,
                   n_crisis_ids, db_lock, streaks_before, streak_vars,
                   crisis_vars, api_vars, aux_vars>>

\* cursor.execute(INSERT INTO interactions ...): takes the write lock, or
\* raises when another connection keeps it.
InsertInteraction(t) ==
    /\ calls[t].pc = "insert"
    /\ IF WriteLockBusy(db_lock)
       THEN /\ calls' = [calls EXCEPT ![t] =
                           [pc |-> "returned", row |-> calls[t].row,
                            stored |-> FALSE]]
            /\ UNCHANGED db_lock
       ELSE /\ db_lock' = Some(t)
            /\ calls' = [calls EXCEPT ![t].pc = "update"]
    /\ UNCHANGED <<streaks_before, streak_vars, crisis_vars, ledger_vars,
                   api_vars, aux_vars>>

\* cursor.execute(UPDATE user_sessions SET ...), on the rows the connection
\* sees: the committed sessions and interactions and its own INSERT.
UpdateSession(t) ==
    /\ calls[t].pc = "update"
    /\ calls' = [calls EXCEPT ![t] =
                    [pc |-> "commit", row |-> calls[t].row,
                     written |-> UpdateSessionStatistics(
                                     user_sessions,
                                     interactions \cup {calls[t].row},
                                     calls[t].row.session_id,
                                     calls[t].row.is_crisis)]]
    /\ UNCHANGED <<db_lock, streaks_before, streak_vars, crisis_vars,
                   ledger_vars, api_vars, aux_vars>>

\* conn.commit(); return interaction_id
CommitLog(t) ==
    /\ calls[t].pc = "commit"
    /\ interactions' = interactions \cup {calls[t].row}
    /\ user_sessions' = calls[t].written
    /\ db_lock' = None
    /\ calls' = [calls EXCEPT ![t] =
                    [pc |-> "returned", row |-> calls[t].row, stored |-> TRUE]]
    /\ UNCHANGED <<crisis_events, n_session_ids, n_interaction_ids,
                   n_crisis_ids, streaks_before, streak_vars, crisis_vars,
                   api_vars, aux_vars>>

\* except Exception: return interaction_id -- a statement of a call that
\* holds the lock raises; nothing of the transaction is stored.
FailLog(t) ==
    /\ calls[t].pc \in {"update", "commit"}
    /\ db_lock' = None
    /\ calls' = [calls EXCEPT ![t] =
                    [pc |-> "returned", row |-> calls[t].row, stored |-> FALSE]]
    /\ UNCHANGED <<streaks_before, streak_vars, crisis_vars, ledger_vars,
                   api_vars, aux_vars>>

\* The tables when the threads start: the session start_session stored.
InitLogRace ==
    /\ IdleCrisis
    /\ user_sessions = {NewSession(RaceSession, CHOOSE u \in UserIds : TRUE)}
    /\ n_session_ids = RaceSession
    /\ interactions = {}
    /\ crisis_events = {}
    /\ n_interaction_ids = 0
    /\ n_crisis_ids = 0
    /\ EmptyStreaks
    /\ NoCalls
    /\ NoRequest
    /\ NoRecommendation
    /\ NothingRead

NextLogRace ==
    \E t \in Threads :
        \/ BeginLog(t)
        \/ InsertInteraction(t)
        \/ UpdateSession(t)
        \/ CommitLog(t)
        \/ FailLog(t)

SpecLogRace == InitLogRace /\ [][NextLogRace]_vars

-----------------------------------------------------------------------------
(* api/main.py: POST /analyze_text and POST /analyze_multimodal.            *)
(* analyze_mood runs the sentiment model: its score is an input of the      *)
(* model, and it may raise.  send_emergency_alert sends the notifications:  *)
(* it returns a result or raises.                                           *)

\* Texts of a request: a high-severity keyword, a low-severity one, none.
RequestTexts == {<<"suicide">>, <<"numb">>, <<"it">>}

\* Scores analyze_mood returns, in hundredths.
RequestMoods == {-81, -70, 10}

\* The location field: null (JSON body only) or a string.
RequestLocations == {None, Some("international"), Some("US")}

\* The emergency_contacts field as sent: left out, an empty JSON object,
\* a JSON object with a contact, or something that is not a JSON object.
ContactPayloads == {"absent", "empty", "contacts", "malformed"}

\* json.loads(emergency_contacts): the value, or None when it raises.
json_loads(payload) ==
    CASE payload = "empty"    -> Some({})
      [] payload = "contacts" -> Some({"friend"})
      [] OTHER                -> None

\* if emergency_contacts: ... try: json.loads(...) except: pass
\* The parsed contacts of /analyze_multimodal, None when there are none.
ParseFormContacts(payload) ==
    IF payload = "absent" THEN None
    ELSE json_loads(payload)

\* TextInput.emergency_contacts: Optional[Dict] -- pydantic accepts null or
\* an object and rejects anything else before the handler runs.
TextInputValid(payload) == payload # "malformed"

\* Truth value of the contacts: None and an empty dict are false.
HasContacts(contacts) == contacts # None /\ contacts[1] # {}

\* check_crisis raises when _get_helplines calls location.lower() on None,
\* which it does for every level that has a helplines entry.
CheckCrisisRaises(txt, score, location) ==
    /\ location = None
    /\ analyze_crisis_level(txt, score).crisis_level # "none"

\* What send_emergency_alert does with one contact: it raises (None), or
\* it returns the results with total_successful deliveries out of one.
AlertOutcomes == {None, Some(0), Some(1)}

\* The value stored under "emergency_notifications" after the call:
\* the results of send_crisis_notifications or {"error": str(e)}.
send_emergency_alert(alert) ==
    IF alert = None THEN [error |-> "exception"]
    ELSE [total_attempted |-> 1, total_successful |-> alert[1]]

\* The part of both handlers from check_crisis on: the response body, the
\* send_emergency_alert calls and the arguments of log_request.
Respond(txt, score, location, contacts, alert) ==
    LET crisis_result_ == check_crisis(txt, score,
                                       IF location = None THEN "international"
                                       ELSE location[1])
        analysis == crisis_result_.analysis
        crisis_response == crisis_result_.response
        alerted == /\ analysis.is_crisis
                   /\ HasContacts(contacts)
                   /\ crisis_response.priority \in {"immediate", "urgent"}
    IN  [status_code |-> 200,
         body |-> Some([mood_score |-> score,
                        crisis_detected |-> analysis.is_crisis,
                        crisis_level |-> analysis.crisis_level,
                        priority |-> IF analysis.is_crisis
                                     THEN Some(crisis_response.priority)
                                     ELSE None,
                        emergency_notifications |->
                            IF ~alerted THEN None
                            ELSE Some(send_emergency_alert(alert))]),
         alert_calls |-> IF alerted THEN 1 ELSE 0,
         \* "emergency_contacts_notified": "emergency_notifications" in
         \* response; the dict has no "notification_results" key
         logged |-> Some([mood_score |-> score,
                          is_crisis |-> analysis.is_crisis,
                          emergency_contacts_notified |-> alerted,
                          notification_results |-> None,
                          follow_up_required |->
                              crisis_response.follow_up_required])]

\* raise HTTPException(status_code=500, ...), before log_request.
InternalError ==
    [status_code |-> 500, body |-> None, alert_calls |-> 0, logged |-> None]

\* analyze_text after start_session: mood is None when analyze_mood raised.
analyze_text(data, mood, alert) ==
    IF mood = None THEN InternalError
    ELSE IF CheckCrisisRaises(data.text, mood[1], data.location)
    THEN InternalError
    ELSE Respond(data.text, mood[1], data.location,
                 IF data.emergency_contacts = "absent" THEN None
                 ELSE json_loads(data.emergency_contacts), alert)

\* analyze_multimodal after start_session: a failure of analyze_mood gives
\* text_score = 0.0; check_crisis is called outside any try block.
analyze_multimodal(data, mood, alert) ==
    LET final_mood_score == IF mood = None THEN 0 ELSE mood[1]
    IN  IF CheckCrisisRaises(data.text, final_mood_score, data.location)
        THEN InternalError
        ELSE Respond(data.text, final_mood_score, data.location,
                     ParseFormContacts(data.emergency_contacts), alert)

\* session_id = data.session_id or monitor.start_session(data.user_id),
\* then the handler, then log_request when the handler got that far.
Handle(data, outcome, ok_session, ok_interaction, ok_crisis) ==
    LET started == data.session_id = None
        session_id == IF started THEN n_session_ids + 1 ELSE data.session_id[1]
        \* start_session(data.user_id) names an anonymous user itself
        session_user == IF data.user_id = None THEN AnonymousUser
                        ELSE data.user_id[1]
        user_id == IF data.user_id = None THEN AnonymousRequestUser
                   ELSE data.user_id[1]
        sessions == IF started /\ ok_session
                    THEN user_sessions \cup {NewSession(session_id, session_user)}
                    ELSE user_sessions
        logged == outcome.logged
        interaction_id == n_interaction_ids + 1
        rows == interactions \cup
                  {NewInteraction(interaction_id, session_id, user_id,
                                  logged[1].mood_score, logged[1].is_crisis)}
        ids_needed == (IF started THEN 1 ELSE 0)
                        + (IF logged = None THEN 0
                           ELSE IF logged[1].is_crisis THEN 2 ELSE 1)
    IN  /\ IdsGenerated + ids_needed <= MaxIds
        \* the outcome of a write that is not attempted is not a choice
        /\ started \/ ok_session
        /\ (logged # None /\ logged[1].is_crisis) \/ ok_crisis
        /\ logged # None \/ ok_interaction
        /\ http_request' = Some(data)
        /\ http_response' = Some([status_code |-> outcome.status_code,
                                  body |-> outcome.body])
        /\ alert_calls' = outcome.alert_calls
        /\ n_session_ids' = IF started THEN session_id ELSE n_session_ids
        /\ IF logged = None
           THEN /\ user_sessions' = sessions
                /\ UNCHANGED <<interactions, n_interaction_ids,
                               crisis_events, n_crisis_ids>>
           ELSE /\ n_interaction_ids' = interaction_id
                /\ interactions' = IF ok_interaction THEN rows ELSE interactions
                /\ user_sessions' =
                       IF ok_interaction
                       THEN UpdateSessionStatistics(sessions, rows, session_id,
                                                    logged[1].is_crisis)
                       ELSE sessions
                /\ IF logged[1].is_crisis
                   THEN /\ n_crisis_ids' = n_crisis_ids + 1
                        /\ crisis_events' =
                               log_crisis_event(ok_crisis, n_crisis_ids + 1,
                                                interaction_id, user_id,
                                                logged[1].follow_up_required,
                                                logged[1].emergency_contacts_notified,
                                                logged[1].notification_results)
                   ELSE UNCHANGED <<n_crisis_ids, crisis_events>>
        /\ UNCHANGED <<crisis_vars, streak_vars, txn_vars, aux_vars>>

\* The fields of a request body or form.
Requests(endpoint, locations) ==
    [endpoint : {endpoint},
     text : RequestTexts,
     user_id : UserArgs,
     session_id : {None} \cup {Some(ForeignSessionId)}
                    \cup {Some(id) : id \in 1..n_session_ids},
     location : locations,
     emergency_contacts : ContactPayloads]

\* POST /analyze_text.  A body that is not a TextInput is answered 422 by
\* the framework and the handler does not run.
AnalyzeText ==
    /\ http_request = None
    /\ \E data \in Requests("analyze_text", RequestLocations),
          mood \in {None} \cup {Some(m) : m \in RequestMoods},
          alert \in AlertOutcomes, ok_session \in BOOLEAN,
          ok_interaction \in BOOLEAN, ok_crisis \in BOOLEAN :
           IF ~TextInputValid(data.emergency_contacts)
           THEN /\ http_request' = Some(data)
                /\ http_response' = Some([status_code |-> 422, body |-> None])
                /\ alert_calls' = 0
                /\ UNCHANGED <<ledger_vars, crisis_vars, streak_vars, txn_vars, aux_vars>>
           ELSE Handle(data, analyze_text(data, mood, alert),
                       ok_session, ok_interaction, ok_crisis)

\* POST /analyze_multimodal.  location is a form field: a string.
AnalyzeMultimodal ==
    /\ http_request = None
    /\ \E data \in Requests("analyze_multimodal", RequestLocations \ {None}),
          mood \in {None} \cup {Some(m) : m \in RequestMoods},
          alert \in AlertOutcomes, ok_session \in BOOLEAN,
          ok_interaction \in BOOLEAN, ok_crisis \in BOOLEAN :
           Handle(data, analyze_multimodal(data, mood, alert),
                  ok_session, ok_interaction, ok_crisis)

\* The model follows one request, received when the ledger is empty or
\* holds the session of an earlier start_session call.
InitApi ==
    /\ IdleCrisis
    /\ \E user_arg \in {None} \cup {Some(u) : u \in UserArgs} :
         /\ user_sessions =
               IF user_arg = None THEN {}
               ELSE {NewSession(1, IF user_arg[1] = None THEN AnonymousUser
                                   ELSE user_arg[1][1])}
         /\ n_session_ids = IF user_arg = None THEN 0 ELSE 1
    /\ interactions = {}
    /\ crisis_events = {}
    /\ n_interaction_ids = 0
    /\ n_crisis_ids = 0
    /\ EmptyStreaks
    /\ NoCalls
    /\ NoRequest
    /\ NoRecommendation
    /\ NothingRead

NextApi ==
    \/ AnalyzeText
    \/ AnalyzeMultimodal

SpecApi == InitApi /\ [][NextApi]_vars

-----------------------------------------------------------------------------
(* utils/activity_recommendations.py: ActivityRecommendationEngine *)

\* self.activities: for each mood category, the titles of its activities
\* in the order the loop over the sub-categories collects them.
activities ==
    [crisis |->
        <<"5-4-3-2-1 Grounding Technique", "Deep Breathing Exercise",
          "Cold Water on Wrists", "Call Someone You Trust",
          "Wrap Yourself in a Blanket", "Listen to Calming Music">>,
     moderate_negative |->
        <<"Take a 10-Minute Walk", "Gentle Stretching",
          "Dance to Your Favorite Song", "Draw or Doodle",
          "Write in a Journal", "Take Photos of Beautiful Things",
          "Mindful Tea/Coffee Break", "Gratitude List",
          "Text a Friend Something Positive", "Watch Funny Videos">>,
     neutral |->
        <<"Organize One Small Space", "Learn Something New",
          "Plan Something Fun", "Take a Relaxing Shower/Bath",
          "Do Skincare or Grooming", "Make Your Bed",
          "Sit Outside for 10 Minutes", "Water Your Plants">>,
     positive |->
        <<"Share Your Good Mood", "Do Something Kind",
          "Start a Creative Project", "Take on a Fun Challenge",
          "Celebrate Small Wins", "Treat Yourself">>]

\* Mood scores on both sides of the thresholds -0.5 and 0.1, in hundredths.
ActivityMoods == {-51, -50, 9, 10}

CrisisLevels == {"none", "moderate", "high", "critical"}

MoodCategory_ModerateIsCrisis(mood, crisis_level) ==
    IF crisis_level \in {"critical", "high", "moderate"} THEN "crisis"
    ELSE IF mood < -50 THEN "moderate_negative"
    ELSE IF mood < 10 THEN "neutral"
    ELSE "positive"

\* "Determine mood category"
MoodCategory(mood, crisis_level) ==
    IF crisis_level \in {"critical", "high"} THEN "crisis"
    ELSE IF mood < -50 THEN "moderate_negative"
    ELSE IF mood < 10 THEN "neutral"
    ELSE "positive"

Min(a, b) == IF a <= b THEN a ELSE b

\* The elements of seq at the positions of `chosen`, in list order.
RECURSIVE Pick(_, _, _)
Pick(seq, chosen, i) ==
    IF i > Len(seq) THEN <<>>
    ELSE IF i \in chosen THEN <<seq[i]>> \o Pick(seq, chosen, i + 1)
    ELSE Pick(seq, chosen, i + 1)

\* random.sample(population, k): k different positions of the list.
Samples(population, k) ==
    {Pick(population, chosen, 1) :
        chosen \in {c \in SUBSET (1..Len(population)) : Cardinality(c) = k}}

\* ActivityRecommendationEngine.get_recommendations without preferences,
\* as get_activity_recommendations calls it: the values it can return.
get_recommendations(mood, crisis_level, num_activities) ==
    LET category == MoodCategory(mood, crisis_level)
        available_activities == activities[category]
    IN  {[mood_category |-> category,
          activities |-> selected_activities,
          mood_score |-> mood,
          crisis_level |-> crisis_level] :
            selected_activities \in
                Samples(available_activities,
                        Min(num_activities, Len(available_activities)))}

GetRecommendations ==
    /\ recommended = None
    /\ recommended' \in
          {Some(r) : r \in get_recommendations(activity_call.mood_score,
                                               activity_call.crisis_level,
                                               activity_call.num_activities)}
    /\ UNCHANGED <<activity_call, crisis_alerts, insights, crisis_vars,
                   ledger_vars, streak_vars, txn_vars, api_vars>>

InitActivities ==
    /\ IdleCrisis
    /\ EmptyLedger
    /\ EmptyStreaks
    /\ NoCalls
    /\ NoRequest
    /\ activity_call \in [mood_score : ActivityMoods,
                          crisis_level : CrisisLevels,
                          num_activities : 0..MaxActivities]
    /\ recommended = None
    /\ NothingRead

NextActivities == GetRecommendations

SpecActivities == InitActivities /\ [][NextActivities]_vars

-----------------------------------------------------------------------------
(* Properties of check_crisis, checked under SpecCrisis *)

Returned == crisis_result # None
Analysis == crisis_result[1].analysis
Response == crisis_result[1].response

MatchedKeywords ==
    {crisis_keywords[i] : i \in {j \in 1..Len(crisis_keywords) :
                                    Contains(Lower(text), crisis_keywords[j])}}
HighKeywordSet   == {high_severity_keywords[i] : i \in 1..Len(high_severity_keywords)}
MediumKeywordSet == {medium_severity_keywords[i] : i \in 1..Len(medium_severity_keywords)}

\* C3: for every severity tier, number of matched keywords and mood score,
\* the returned crisis_level is the one of the top-down first-match table:
\* critical if severity is high or (mood < -0.8 and >= 1 keyword); else high
\* if severity is medium or mood < -0.8 or >= 2 keywords; else moderate if
\* >= 1 keyword or mood < -0.6; else none.
C3_CrisisLevelTable ==
    Returned =>
        LET sev == Analysis.severity_assessment
            n   == Len(Analysis.found_keywords)
            critical == sev = "high" \/ (mood_score < -80 /\ n >= 1)
            high     == sev = "medium" \/ mood_score < -80 \/ n >= 2
            moderate == n >= 1 \/ mood_score < -60
        IN  Analysis.crisis_level =
                CASE critical -> "critical"
                  [] ~critical /\ high -> "high"
                  [] ~critical /\ ~high /\ moderate -> "moderate"
                  [] OTHER -> "none"

\* C3 witness: two low-tier keywords and a mild mood give level "high".
C3_Witness ==
    /\ Returned
    /\ Analysis.severity_assessment = "low"
    /\ Len(Analysis.found_keywords) >= 2
    /\ mood_score >= -80
    /\ Analysis.crisis_level = "high"

\* C4: a text containing at least one high-severity keyword gets
\* is_crisis = true and crisis_level = "critical" for every mood score,
\* whatever other keywords it also matches.
C4_HighKeywordIsCritical ==
    (Returned /\ MatchedKeywords \cap HighKeywordSet # {}) =>
        /\ Analysis.is_crisis = TRUE
        /\ Analysis.crisis_level = "critical"

\* C4 witness: a high-severity keyword together with a lower-tier keyword
\* that the scan meets after it, under a positive mood.
C4_Witness ==
    /\ Returned
    /\ MatchedKeywords \cap HighKeywordSet # {}
    /\ MatchedKeywords \ HighKeywordSet # {}
    /\ mood_score > 0
    /\ Analysis.crisis_level = "critical"

\* C5: a text matching at least one medium-severity keyword and no
\* high-severity keyword, with mood_score >= -0.8, gets is_crisis = true and
\* crisis_level = "high".
C5_MediumKeywordIsHigh ==
    (/\ Returned
     /\ MatchedKeywords \cap MediumKeywordSet # {}
     /\ MatchedKeywords \cap HighKeywordSet = {}
     /\ mood_score >= -80) =>
        /\ Analysis.is_crisis = TRUE
        /\ Analysis.crisis_level = "high"

\* C5 witness: a medium keyword, no high keyword, mood exactly -0.8.
C5_Witness ==
    /\ Returned
    /\ MatchedKeywords \cap MediumKeywordSet # {}
    /\ MatchedKeywords \cap HighKeywordSet = {}
    /\ mood_score = -80
    /\ Analysis.crisis_level = "high"

\* C6: a text matching no crisis keyword, with mood_score >= -0.6, gets
\* is_crisis = false, crisis_level = "none" and the NO_CRISIS response
\* with no message and no helplines.
C6_NoKeywordMildMoodIsNone ==
    (Returned /\ MatchedKeywords = {} /\ mood_score >= -60) =>
        /\ Analysis.is_crisis = FALSE
        /\ Analysis.crisis_level = "none"
        /\ Response.status = "NO_CRISIS"
        /\ Response.message = None
        /\ Response.helplines = None

\* C6 witness: a non-empty text without keywords, mood exactly -0.6.
C6_Witness ==
    /\ Returned
    /\ text # <<>>
    /\ MatchedKeywords = {}
    /\ mood_score = -60
    /\ Response.status = "NO_CRISIS"

TierRank(tier) ==
    CASE tier = "none" -> 0 [] tier = "low" -> 1
      [] tier = "medium" -> 2 [] tier = "high" -> 3

TierOf(keyword) ==
    IF keyword \in HighKeywordSet THEN "high"
    ELSE IF keyword \in MediumKeywordSet THEN "medium"
    ELSE "low"

Reverse(seq) == [i \in 1..Len(seq) |-> seq[Len(seq) + 1 - i]]

\* C7: severity_assessment is the highest tier (none < low < medium < high)
\* among the keywords matched in the text, and scanning the keyword table
\* in the opposite order gives the same tier.
C7_SeverityIsHighestTier ==
    Returned =>
        LET sev == Analysis.severity_assessment
        IN  /\ \A k \in MatchedKeywords : TierRank(TierOf(k)) <= TierRank(sev)
            /\ \/ MatchedKeywords = {} /\ sev = "none"
               \/ \E k \in MatchedKeywords : TierOf(k) = sev
            /\ ScanKeywords(Reverse(crisis_keywords), 1, Lower(text),
                            <<>>, "none").severity_level = sev

\* C7 witness: the scan met a keyword of a lower tier after one of a
\* higher tier.
C7_Witness ==
    /\ Returned
    /\ \E i, j \in 1..Len(Analysis.found_keywords) :
          /\ i < j
          /\ TierRank(TierOf(Analysis.found_keywords[i]))
                > TierRank(TierOf(Analysis.found_keywords[j]))
    /\ Analysis.severity_assessment \in {"high", "medium"}

\* C16: get_crisis_response maps crisis_level critical to priority
\* immediate, high to urgent, moderate to elevated and anything else to
\* normal, and follow_up_required is true exactly for critical and high.
C16_ResponseTemplateOfLevel ==
    Returned =>
        LET level == Analysis.crisis_level
        IN  /\ Response.priority =
                  CASE level = "critical" -> "immediate"
                    [] level = "high"     -> "urgent"
                    [] level = "moderate" -> "elevated"
                    [] OTHER              -> "normal"
            /\ Response.follow_up_required = (level \in {"critical", "high"})

\* C16 witness: a moderate level answered with priority elevated and no
\* follow-up.
C16_Witness ==
    /\ Returned
    /\ Analysis.crisis_level = "moderate"
    /\ Response.priority = "elevated"
    /\ Response.follow_up_required = FALSE

\* The keys of the locale table equal to the location when both are
\* compared in lower case.
LocaleKeys(location) ==
    {k \in DOMAIN helplines : LowerWord(k) = LowerWord(location)}

\* C17: in every response that carries helplines, primary is the locale
\* table entry whose key equals the location case-insensitively, or the
\* international entry when there is none, and additional is the us, uk
\* and india entries for every location.
C17_HelplinesOfLocation ==
    (Returned /\ Response.helplines # None) =>
        LET h == Response.helplines[1]
        IN  /\ IF LocaleKeys(user_location) # {}
               THEN \E k \in LocaleKeys(user_location) :
                       h.primary = helplines[k]
               ELSE h.primary = helplines["international"]
            /\ h.additional = <<helplines["us"], helplines["uk"],
                                helplines["india"]>>

\* C17 witness: location "US" in upper case gets the us entry as primary.
C17_Witness ==
    /\ Returned
    /\ Response.helplines # None
    /\ user_location = "US"
    /\ Response.helplines[1].primary = helplines["us"]
    /\ Response.helplines[1].primary # helplines["international"]

-----------------------------------------------------------------------------
(* Properties of the ledger, checked under SpecLedger *)

InteractionsOf(session_id) == {i \in interactions : i.session_id = session_id}

\* C1: in every reachable state each stored session's total_interactions is
\* the number of stored interactions with its id, its crisis_events the
\* number of those with is_crisis true, and its average_mood_score their
\* mean (NULL while there is none) -- also after calls that failed to persist.
C1_SessionAggregatesMatch ==
    \A s \in user_sessions :
        LET mine == InteractionsOf(s.id)
            n    == Cardinality(mine)
        IN  /\ s.total_interactions = n
            /\ s.crisis_events = Cardinality({i \in mine : i.is_crisis})
            /\ IF n = 0 THEN s.average_mood_score = None
               ELSE /\ s.average_mood_score # None
                    /\ s.average_mood_score[1][1] * n
                         = SumMood(mine) * s.average_mood_score[1][2]

\* C1 witness: a session with a crisis and a non-crisis interaction of
\* different moods, after a log_interaction call that failed to persist.
C1_Witness ==
    /\ n_interaction_ids > Cardinality(interactions)
    /\ \E s \in user_sessions :
          /\ s.total_interactions = 2
          /\ s.crisis_events = 1
          /\ \E i, j \in InteractionsOf(s.id) : i.mood_score # j.mood_score

\* C2: in every reachable state every stored crisis event's interaction_id
\* is the id of exactly one stored interaction.
C2_CrisisEventHasInteraction ==
    \A ce \in crisis_events :
        Cardinality({i \in interactions : i.id = ce.interaction_id}) = 1

\* C20: a start_session, log_interaction or log_crisis_event call whose
\* write fails still hands out its fresh id and leaves its tables as they
\* were; a log_interaction call either stores its row and advances the
\* counters of the row's session, or does neither.
C20_FailedWriteLeavesStore ==
    [][/\ n_session_ids' # n_session_ids =>
            /\ n_session_ids' = n_session_ids + 1
            /\ \A s \in user_sessions : s.id # n_session_ids'
            /\ \/ UNCHANGED <<user_sessions, interactions, crisis_events>>
               \/ \E s \in user_sessions' :
                     /\ s.id = n_session_ids'
                     /\ user_sessions' = user_sessions \cup {s}
       /\ n_interaction_ids' # n_interaction_ids =>
            /\ n_interaction_ids' = n_interaction_ids + 1
            /\ \A i \in interactions : i.id # n_interaction_ids'
            /\ \/ UNCHANGED <<user_sessions, interactions>>
               \/ \E i \in interactions' :
                     /\ i.id = n_interaction_ids'
                     /\ interactions' = interactions \cup {i}
                     /\ \A s \in user_sessions :
                          \E t \in user_sessions' :
                             /\ t.id = s.id
                             /\ t.total_interactions = s.total_interactions
                                  + (IF s.id = i.session_id THEN 1 ELSE 0)
       /\ n_crisis_ids' # n_crisis_ids =>
            /\ n_crisis_ids' = n_crisis_ids + 1
            /\ \A c \in crisis_events : c.id # n_crisis_ids'
            /\ \/ UNCHANGED crisis_events
               \/ \E c \in crisis_events' :
                     /\ c.id = n_crisis_ids'
                     /\ crisis_events' = crisis_events \cup {c}
      ]_vars

\* C20 witness: each of the three calls has failed once, and a stored
\* session exists whose counters a failed log_interaction could have moved.
C20_Witness ==
    /\ n_session_ids = Cardinality(user_sessions) + 1
    /\ n_interaction_ids = Cardinality(interactions) + 1
    /\ n_crisis_ids = Cardinality(crisis_events) + 1
    /\ \E s \in user_sessions : s.total_interactions = 0

-----------------------------------------------------------------------------
(* Properties of the streak engine, checked under SpecStreak *)

\* The days (numbered from FirstDay) on which a daily_checkins row exists.
CheckinDays(user_id) ==
    {DayNumber(StrpTime(c.date)) : c \in {r \in daily_checkins :
                                             r.user_id = user_id}}

\* Number of consecutive days ending at day `last` that are all in `days`.
RunLength(days, last) ==
    Cardinality({k \in 0..last : \A j \in 0..k : (last - j) \in days})

LastCheckinDay(row) == DayNumber(StrpTime(row.last_checkin_date[1]))

\* C8: after any sequence of check-ins on non-decreasing dates, with gaps
\* and same-day repeats, every stored current_streak is the number of
\* consecutive calendar days, ending at last_checkin_date, on which the user
\* has a daily_checkins row (so it is 1 after a gap of two or more days).
C8_StreakIsRunOfCheckinDays ==
    \A r \in user_streaks :
        /\ r.last_checkin_date # None
        /\ LastCheckinDay(r) \in CheckinDays(r.user_id)
        /\ \A d \in CheckinDays(r.user_id) : d <= LastCheckinDay(r)
        /\ r.current_streak = RunLength(CheckinDays(r.user_id), LastCheckinDay(r))

\* C8 witness: three days in a row, a missed day, then two days in a row,
\* with one same-day repeat.
C8_Witness ==
    \E r \in user_streaks :
        /\ r.current_streak = 2
        /\ r.longest_streak = 3
        /\ Cardinality(CheckinDays(r.user_id)) = 5
        /\ r.total_checkins = 6

\* C9: a user whose check-ins are n consecutive calendar days, starting
\* from no streak record, has current_streak = n, longest_streak >= n and
\* every milestone threshold <= n among the achieved milestones.
C9_ConsecutiveDaysGiveStreak ==
    \A r \in user_streaks :
        LET days == CheckinDays(r.user_id)
            n    == Cardinality(days)
        IN  (days # {} /\ \A a, b \in days : b - a < n) =>
                /\ r.current_streak = n
                /\ r.longest_streak >= n
                /\ \A i \in 1..Len(milestone_days) :
                      milestone_days[i] <= n =>
                          InList(r.streak_milestones, milestone_days[i])

\* C9 witness: seven consecutive days and milestone 7.
C9_Witness ==
    \E r \in user_streaks :
        /\ Cardinality(CheckinDays(r.user_id)) = 7
        /\ r.current_streak = 7
        /\ r.streak_milestones = <<7>>

\* C10: a successful save_daily_checkin for a user whose last check-in is
\* already today's leaves current_streak, longest_streak, last_checkin_date
\* and the milestone list as they were.
C10_SameDayResubmissionKeepsStreak ==
    [][\A u \in CheckinUsers :
          LET before == FetchStreak(user_streaks, u)
              after  == FetchStreak(user_streaks', u)
          IN  (/\ before # None
               /\ before[1].last_checkin_date = Some(IsoFormat(today))
               /\ after # None
               /\ after[1].total_checkins = before[1].total_checkins + 1) =>
                  /\ after[1].current_streak = before[1].current_streak
                  /\ after[1].longest_streak = before[1].longest_streak
                  /\ after[1].last_checkin_date = before[1].last_checkin_date
                  /\ after[1].streak_milestones = before[1].streak_milestones
      ]_vars

\* C10 witness: two check-ins stored for one user on the same, current day.
C10_Witness ==
    \E r \in user_streaks :
        /\ r.last_checkin_date = Some(IsoFormat(today))
        /\ Cardinality(CheckinDays(r.user_id)) = 1
        /\ r.total_checkins = 2
        /\ r.current_streak = 1

\* The stored total_checkins of a user, 0 without a streak row.
TotalCheckinsOf(streaks, user_id) ==
    LET row == FetchStreak(streaks, user_id)
    IN  IF row = None THEN 0 ELSE row[1].total_checkins

\* The step committed a save_daily_checkin of user u: a row with a new id.
SavedCheckin(u) ==
    /\ n_checkin_ids' = n_checkin_ids + 1
    /\ \E c \in daily_checkins' : c.id = n_checkin_ids' /\ c.user_id = u

\* C11: total_checkins increases by exactly 1 on every successful
\* save_daily_checkin, a same-day resubmission included, so the
\* total_checkins over all users is the number of successful submissions.
C11_TotalCheckinsCountsEverySave ==
    /\ [](SumTotalCheckins(user_streaks) = n_checkin_ids)
    /\ [][\A u \in CheckinUsers :
             IF SavedCheckin(u)
             THEN TotalCheckinsOf(user_streaks', u)
                    = TotalCheckinsOf(user_streaks, u) + 1
             ELSE TotalCheckinsOf(user_streaks', u)
                    = TotalCheckinsOf(user_streaks, u)
         ]_vars

\* C11 witness: a user with three counted check-ins and one stored row.
C11_Witness ==
    \E r \in user_streaks :
        /\ r.total_checkins = 3
        /\ Cardinality({c \in daily_checkins : c.user_id = r.user_id}) = 1

\* C14: the achieved-milestones list only grows (what was recorded stays,
\* in place), holds no threshold twice, and is always the thresholds of
\* milestone_days that are <= longest_streak, in increasing order.
C14_MilestonesOnlyGrow ==
    /\ [](\A r \in user_streaks :
            /\ \A i, j \in 1..Len(r.streak_milestones) :
                  i # j => r.streak_milestones[i] # r.streak_milestones[j]
            /\ {r.streak_milestones[i] : i \in 1..Len(r.streak_milestones)}
                 = {milestone_days[i] : i \in {j \in 1..Len(milestone_days) :
                                           milestone_days[j] <= r.longest_streak}})
    /\ [][\A r \in user_streaks :
             \E q \in user_streaks' :
                /\ q.user_id = r.user_id
                /\ Len(q.streak_milestones) >= Len(r.streak_milestones)
                /\ SubSeq(q.streak_milestones, 1, Len(r.streak_milestones))
                     = r.streak_milestones
         ]_vars

\* C14 witness: milestone 7 was recorded, then the streak was reset.
C14_Witness ==
    \E r \in user_streaks :
        /\ r.streak_milestones = <<7>>
        /\ r.longest_streak = 7
        /\ r.current_streak = 1

\* C29: every stored streak row has longest_streak >= current_streak >= 1,
\* and a user's longest_streak never decreases, whatever check-ins follow
\* (consecutive days, same-day repeats, gaps).
C29_LongestStreakBoundsCurrent ==
    /\ [](\A r \in user_streaks :
            r.longest_streak >= r.current_streak /\ r.current_streak >= 1)
    /\ [][\A r \in user_streaks :
             \E q \in user_streaks' :
                q.user_id = r.user_id /\ q.longest_streak >= r.longest_streak
         ]_vars

\* C29 witness: after a gap the streak is back at 1 under a longest
\* streak of 2, with a same-day repeat counted.
C29_Witness ==
    \E r \in user_streaks :
        /\ r.current_streak = 1
        /\ r.longest_streak = 2
        /\ r.total_checkins = 4
        /\ Cardinality(CheckinDays(r.user_id)) = 3

-----------------------------------------------------------------------------
(* Properties of check-ins and of the streak report, under SpecCheckin *)

\* C13: get_user_streak_info reports current_streak = 0 when today is more
\* than one day after the stored last_checkin_date and the stored
\* current_streak otherwise, and writes nothing; a stored current_streak
\* only changes in a step that commits a save_daily_checkin of that user.
C13_StreakReportCorrectsOnRead ==
    [][/\ streak_info' # streak_info =>
            /\ UNCHANGED <<today, daily_checkins, user_streaks, n_checkin_ids>>
            /\ LET call == streak_info'[1]
                   row  == FetchStreak(user_streaks, call.user_id)
               IN  (row # None /\ call.returned # [error |-> "exception"]) =>
                      call.returned.current_streak =
                         IF DayNumber(today) - LastCheckinDay(row[1]) > 1
                         THEN 0
                         ELSE row[1].current_streak
       /\ \A r \in user_streaks :
            \/ r \in user_streaks'
            \/ SavedCheckin(r.user_id)
      ]_vars

\* C13 witness: a report of 0 for a user whose stored streak is 2 and
\* whose last check-in was two days ago.
C13_Witness ==
    /\ streak_info # None
    /\ streak_info[1].returned # [error |-> "exception"]
    /\ streak_info[1].returned.current_streak = 0
    /\ \E r \in user_streaks :
          /\ r.user_id = streak_info[1].user_id
          /\ r.current_streak = 2
          /\ DayNumber(today) - LastCheckinDay(r) = 2

\* C15: there is at most one daily_checkins row per (user_id, date); a
\* committed save replaces the user's row of today by the row of this
\* submission and leaves the other rows alone; and a step changes
\* daily_checkins exactly when it changes user_streaks.
C15_OneCheckinRowPerUserAndDate ==
    /\ [](\A a, b \in daily_checkins :
             (a.user_id = b.user_id /\ a.date = b.date) => a = b)
    /\ [][/\ (daily_checkins' # daily_checkins)
                <=> (user_streaks' # user_streaks)
           /\ \A u \in CheckinUsers :
                SavedCheckin(u) =>
                   \E w \in WellnessScores :
                      daily_checkins' =
                         {r \in daily_checkins :
                             ~(r.user_id = u /\ r.date = IsoFormat(today))}
                           \cup {[id |-> n_checkin_ids', user_id |-> u,
                                  date |-> IsoFormat(today),
                                  wellness_score |-> w]}
         ]_vars

\* C15 witness: two users have a row of the same date, and one of them
\* submitted twice that day, the second time with another score.
C15_Witness ==
    \E a, b \in daily_checkins :
        /\ a.user_id # b.user_id
        /\ a.date = b.date
        /\ a.date = IsoFormat(today)
        /\ TotalCheckinsOf(user_streaks, a.user_id) = 2
        /\ a.id = 3
        /\ a.wellness_score = 40
        /\ b.id = 2

-----------------------------------------------------------------------------
(* Properties of concurrent check-ins, checked under SpecRace *)

\* The stored current_streak of a user, 0 without a streak row.
CurrentStreakOf(streaks, user_id) ==
    LET row == FetchStreak(streaks, user_id)
    IN  IF row = None THEN 0 ELSE row[1].current_streak

\* C12: under every interleaving of save_daily_checkin calls for one user
\* on one calendar date, each on its own connection, the stored
\* current_streak is never more than 1 above its value before the calls,
\* in particular once all of them have returned.
C12_OneIncrementPerDay ==
    \A u \in StreakUsers :
        CurrentStreakOf(user_streaks, u)
            <= CurrentStreakOf(streaks_before, u) + 1

\* C12 witness: all calls have returned, two of them committed, the first
\* of which advanced a streak of 2 to 3.
C12_Witness ==
    /\ \A t \in Threads : calls[t].pc = "returned"
    /\ Cardinality({t \in Threads : calls[t].returned # None}) >= 2
    /\ \E u \in StreakUsers :
          /\ CurrentStreakOf(streaks_before, u) = 2
          /\ CurrentStreakOf(user_streaks, u) = 3
          /\ TotalCheckinsOf(user_streaks, u)
               = TotalCheckinsOf(streaks_before, u) + 2

-----------------------------------------------------------------------------
(* Properties of the request handlers, checked under SpecApi *)

Answered == http_response # None

\* C18: send_emergency_alert is called exactly when the request carried
\* non-empty, parseable contacts and the response priority is immediate or
\* urgent (crisis_level critical or high); and a request whose contacts
\* payload cannot be parsed gets no call and still a normal response.
C18_AlertIffContactsAndPriority ==
    Answered =>
        LET status_code == http_response[1].status_code
            body == http_response[1].body
            payload == http_request[1].emergency_contacts
        IN  /\ (alert_calls = 1) <=>
                  /\ payload = "contacts"
                  /\ status_code = 200
                  /\ body[1].priority \in {Some("immediate"), Some("urgent")}
            /\ alert_calls = 1 =>
                  body[1].crisis_level \in {"critical", "high"}
            /\ alert_calls \in {0, 1}
            /\ payload = "malformed" =>
                  alert_calls = 0 /\ status_code = 200

\* C19: every request that the service accepts is answered with a normal
\* response body, never an error status, whatever fails while it is
\* handled; a failed send_emergency_alert call shows as an error payload
\* under emergency_notifications.
C19_EveryRequestGetsBody ==
    (Answered /\ http_response[1].status_code # 422) =>
        /\ http_response[1].status_code = 200
        /\ http_response[1].body # None
        /\ alert_calls = 1 =>
              http_response[1].body[1].emergency_notifications # None

\* C23: every request that is answered with a response body leaves exactly
\* one stored interaction row for it, and exactly one crisis event row
\* linked to that interaction when is_crisis is true and none when false.
C23_OneInteractionPerResponse ==
    (Answered /\ http_response[1].status_code = 200) =>
        /\ Cardinality(interactions) = 1
        /\ IF http_response[1].body[1].crisis_detected
           THEN /\ Cardinality(crisis_events) = 1
                /\ \A e \in crisis_events :
                      \E i \in interactions : i.id = e.interaction_id
           ELSE crisis_events = {}

\* C28: for every accepted request, the stored interaction names a session
\* row that exists and carries that row's user_id, also when the request
\* has no user_id or supplies its own session_id.
C28_InteractionUserIsSessionUser ==
    Answered =>
        \A i \in interactions :
            \E session \in user_sessions :
                /\ session.id = i.session_id
                /\ session.user_id = i.user_id

\* C30: the crisis event logged for a request has
\* emergency_contacts_notified = true only if send_emergency_alert reported
\* at least one successful delivery, and then its results are stored in
\* notification_results; a dispatch that failed on every channel or raised
\* leaves the flag false.
C30_NotifiedOnlyAfterDelivery ==
    Answered =>
        \A e \in crisis_events :
            e.emergency_contacts_notified =>
                LET sent == http_response[1].body[1].emergency_notifications
                IN  /\ sent # None
                    /\ "total_successful" \in DOMAIN sent[1]
                    /\ sent[1].total_successful >= 1
                    /\ e.notification_results # None

-----------------------------------------------------------------------------
(* Properties of concurrent log_interaction calls, under SpecLogRace *)

\* C21: once all the concurrent log_interaction calls for a session have
\* returned, the session's total_interactions, crisis_events and
\* average_mood_score are the count, the crisis count and the mean of the
\* interactions stored for it, whatever the interleaving of the calls'
\* INSERT and UPDATE steps was.
C21_AggregatesAfterConcurrentLogs ==
    (\A t \in Threads : calls[t].pc = "returned") =>
        \A s \in user_sessions :
            LET mine == InteractionsOf(s.id)
                n    == Cardinality(mine)
            IN  /\ mine = {calls[t].row : t \in {u \in Threads : calls[u].stored}}
                /\ s.total_interactions = n
                /\ s.crisis_events = Cardinality({i \in mine : i.is_crisis})
                /\ s.average_mood_score = AvgMood(interactions, s.id)

\* C21 witness: all calls have returned, one of them found the database
\* locked and one stored a crisis interaction.
C21_Witness ==
    /\ \A t \in Threads : calls[t].pc = "returned"
    /\ \E t, u \in Threads : calls[t].stored /\ ~calls[u].stored
    /\ \E s \in user_sessions :
         /\ s.total_interactions >= 1
         /\ s.crisis_events = 1
         /\ s.average_mood_score = Some(<<-90, 1>>)

-----------------------------------------------------------------------------
(* Properties of the check-in insights, checked under SpecInsights *)

\* The scores of `rows`, one per row.
DateDescScores(rows) ==
    LET ordered == DateDesc(rows)
    IN  [k \in 1..Len(ordered) |-> ordered[k].wellness_score]

\* The rows of `rows` that have fewer than n later rows.
MostRecent(rows, n) ==
    {r \in rows :
        Cardinality({o \in rows : DayNumber(StrpTime(o.date))
                                    > DayNumber(StrpTime(r.date))}) < n}

\* C26: the insights of submit_daily_checkin give the average and the trend
\* over the user's 7 most recent check-ins: trend "improving" exactly when
\* the most recent of them scored higher than the oldest of them,
\* "declining" when lower and "stable" when equal; wellness_level is the
\* category of the most recent check-in.
C26_InsightsOfRecentCheckins ==
    [][(insights' # insights /\ "trend" \in DOMAIN insights'[1].returned) =>
        LET ins == insights'[1].returned
            recent == MostRecent({r \in daily_checkins :
                                    r.user_id = insights'[1].user_id}, 7)
            newest == CHOOSE r \in recent :
                         \A o \in recent : DayNumber(StrpTime(o.date))
                                              <= DayNumber(StrpTime(r.date))
            oldest == CHOOSE r \in recent :
                         \A o \in recent : DayNumber(StrpTime(o.date))
                                              >= DayNumber(StrpTime(r.date))
        IN  /\ ins.trend =
                  IF newest.wellness_score > oldest.wellness_score
                  THEN "improving"
                  ELSE IF newest.wellness_score < oldest.wellness_score
                  THEN "declining"
                  ELSE "stable"
            /\ ins.wellness_level = WellnessCategory(newest.wellness_score)
            /\ ins.average_score =
                  RoundTenths(SumSeq(DateDescScores(recent)),
                              Cardinality(recent))
      ]_vars

-----------------------------------------------------------------------------
(* Properties of the crisis follow-up, checked under SpecFollowUp *)

\* The ids of the events in the list the last get_crisis_alerts returned.
AlertIds(alerts) == {alerts[k].id : k \in 1..Len(alerts)}

\* C22: once mark_crisis_resolved has succeeded for an event, its
\* follow_up_completed is true in every later state, whatever is called
\* afterwards (mark_crisis_resolved with another status included), and no
\* later get_crisis_alerts(unresolved_only=True) returns the event.
C22_ResolvedStaysResolved ==
    [][/\ \A e \in crisis_events :
            e.follow_up_completed =>
                \E q \in crisis_events' :
                    q.id = e.id /\ q.follow_up_completed
       /\ (crisis_alerts' # crisis_alerts /\ crisis_alerts'[1].unresolved_only) =>
            \A e \in crisis_events :
                e.follow_up_completed =>
                    e.id \notin AlertIds(crisis_alerts'[1].alerts)
      ]_vars

\* C22 witness: of two events that need a follow-up, the earlier one was
\* marked with the status "unresolved"; the list of unresolved alerts read
\* afterwards holds the later event only.
C22_Witness ==
    /\ crisis_alerts # None
    /\ crisis_alerts[1].unresolved_only
    /\ Len(crisis_alerts[1].alerts) = 1
    /\ \E e, q \in crisis_events :
         /\ e.id < q.id
         /\ e.follow_up_required /\ q.follow_up_required
         /\ e.follow_up_completed /\ e.resolution_status = Some("unresolved")
         /\ ~q.follow_up_completed
         /\ e \in JoinInteractions(crisis_events)
         /\ crisis_alerts[1].alerts[1] = q

\* C25: every stored crisis event with follow_up_required true and
\* follow_up_completed false is in the list
\* get_crisis_alerts(unresolved_only=True) returns, also when the event's
\* interaction was never stored.  (A list that is not empty comes from a
\* query that did not raise.)
C25_OpenEventsAreListed ==
    [][(/\ crisis_alerts' # crisis_alerts
        /\ crisis_alerts'[1].unresolved_only
        /\ crisis_alerts'[1].alerts # <<>>) =>
            \A e \in crisis_events :
                (e.follow_up_required /\ ~e.follow_up_completed) =>
                    e.id \in AlertIds(crisis_alerts'[1].alerts)
      ]_vars

-----------------------------------------------------------------------------
(* Agreement of is_crisis and crisis_level, checked under SpecCrisis *)

\* C27: analyze_crisis_level returns is_crisis = true exactly when it
\* returns a crisis_level other than "none", so that every text classified
\* moderate, high or critical is treated as a crisis by the caller.
C27_IsCrisisIffLevel ==
    Returned => (Analysis.is_crisis <=> Analysis.crisis_level # "none")

-----------------------------------------------------------------------------
(* Properties of get_recommendations, checked under SpecActivities *)

=============================================================================
